---- MODULE Spec2Model ----
(***************************************************************************)
(* Model of src/src/components/FileUpload.tsx: the FileUpload component's  *)
(* state (file, results), its handlers handleFileChange and handleUpload,  *)
(* the asynchronous job processWithAssistant (one step per await), and the *)
(* pure function validateAndFormatResponse.                                *)
(*                                                                         *)
(* A text is a sequence of tokens.  A token is one character, except that  *)
(* the words the code matches or emits as a whole ("Introduction",         *)
(* "Summary", the heading titles) are one token each.                      *)
(***************************************************************************)
EXTENDS Integers, Sequences, FiniteSets, TLC

(***************************************************************************)
(* Bounds of the model.                                                    *)
(***************************************************************************)
\* handleUpload invocations in one behaviour (they may overlap)
MaxRuns == 2

\* handleUpload invocations that have jobs in flight at the same time
MaxActive == 1

\* failures of the remote service in one behaviour: a call that throws, a
\* run reported failed, a message list without a text of the assistant
MaxFaults == 1

\* the length of the raw texts given to validateAndFormatResponse
MaxLen == 4

\* successive applications of validateAndFormatResponse to its own output
MaxPasses == 2

Runs == 1..MaxRuns

(***************************************************************************)
(* Types of the component.                                                 *)
(***************************************************************************)
AssistantType == {"INSIGHTS", "ACHIEVEMENTS", "RESEARCH_IDEAS"}

NoFile == [name |-> "", type |-> "null"]

PdfType == "application/pdf"

\* the files the user can pick: a PDF and two files of other declared types
Files ==
  { [name |-> "a.pdf", type |-> "application/pdf"],
    [name |-> "b.pdf", type |-> "application/x-pdf"],
    [name |-> "c.txt", type |-> "text/plain"] }

\* a message is a sequence of strings, its parts; no message: error is undefined
NoError == <<>>

initialResults ==
  [t \in AssistantType |->
     [type |-> t, content |-> <<>>, status |-> "idle", error |-> NoError]]

(***************************************************************************)
(* validateAndFormatResponse                                               *)
(***************************************************************************)
WhiteSpace == {" ", "\t", "\n", "\r"}

LineTerminators == {"\n", "\r"}

Digits == {"0", "1", "2", "3", "4", "5", "6", "7", "8", "9"}

\* "bullet" is the token of the character U+2022
Bullets == {"-", "*", "bullet"}

RECURSIVE TrimStart(_)
TrimStart(s) ==
  IF s = <<>> THEN <<>>
  ELSE IF Head(s) \in WhiteSpace THEN TrimStart(Tail(s)) ELSE s

RECURSIVE TrimEnd(_)
TrimEnd(s) ==
  IF s = <<>> THEN <<>>
  ELSE IF s[Len(s)] \in WhiteSpace THEN TrimEnd(SubSeq(s, 1, Len(s) - 1)) ELSE s

\* String.prototype.trim
Trim(s) == TrimEnd(TrimStart(s))

\* replace(/\r\n/g, '\n')
RECURSIVE NormalizeNewlines(_)
NormalizeNewlines(s) ==
  IF s = <<>> THEN <<>>
  ELSE IF Len(s) >= 2 /\ s[1] = "\r" /\ s[2] = "\n"
       THEN <<"\n">> \o NormalizeNewlines(Tail(Tail(s)))
       ELSE <<Head(s)>> \o NormalizeNewlines(Tail(s))

\* the prefix p stands at position i of s
StartsWithAt(s, i, p) ==
  /\ i + Len(p) - 1 <= Len(s)
  /\ \A j \in 1..Len(p) : s[i + j - 1] = p[j]

\* ^ under the m flag: the start of the text or just after a line terminator
AtLineStart(s, i) == i = 1 \/ s[i - 1] \in LineTerminators

\* replace(/^<p>.*$/gm, ''): every line that starts with p loses its
\* characters; its line terminator stays
RECURSIVE StripFrom(_, _, _, _)
StripFrom(s, i, p, skipping) ==
  IF i > Len(s) THEN <<>>
  ELSE IF s[i] \in LineTerminators
       THEN <<s[i]>> \o StripFrom(s, i + 1, p, FALSE)
       ELSE IF skipping \/ (AtLineStart(s, i) /\ StartsWithAt(s, i, p))
            THEN StripFrom(s, i + 1, p, TRUE)
            ELSE <<s[i]>> \o StripFrom(s, i + 1, p, FALSE)

StripLines(s, p) == StripFrom(s, 1, p, FALSE)

\* split('\n')
RECURSIVE SplitLines(_)
SplitLines(s) ==
  IF \A i \in 1..Len(s) : s[i] # "\n" THEN <<s>>
  ELSE LET i == CHOOSE j \in 1..Len(s) :
                   s[j] = "\n" /\ \A h \in 1..(j - 1) : s[h] # "\n"
       IN <<SubSeq(s, 1, i - 1)>> \o SplitLines(SubSeq(s, i + 1, Len(s)))

\* the first position of s that holds no digit (Len(s) + 1 if all are digits)
RECURSIVE DigitsEnd(_, _)
DigitsEnd(s, i) ==
  IF i <= Len(s) /\ s[i] \in Digits THEN DigitsEnd(s, i + 1) ELSE i

\* /^(\d+\.|[-*bullet])/.test(line)
HasMarker(line) ==
  /\ line # <<>>
  /\ \/ line[1] \in Bullets
     \/ LET e == DigitsEnd(line, 1) IN e > 1 /\ e <= Len(line) /\ line[e] = "."

\* a callback that trims every line and adds no marker
FormatLine_NoDash(line) == Trim(line)

\* a callback that adds a marker to every line that is not blank
FormatLine_AlwaysDash(line) ==
  LET t == Trim(line)
  IN IF t = <<>> THEN <<>> ELSE <<"-", " ">> \o t

\* a callback that leaves the white space around the line
FormatLine_Untrimmed(line) ==
  IF Trim(line) = <<>> THEN <<>>
  ELSE IF ~HasMarker(Trim(line)) THEN <<"-", " ">> \o line ELSE line

\* the callback of lines.map
FormatLine(line) ==
  LET t == Trim(line)
  IN IF t = <<>> THEN <<>>
     ELSE IF ~HasMarker(t) THEN <<"-", " ">> \o t ELSE t

\* .filter(Boolean).join('\n') over the mapped lines
RECURSIVE JoinLines(_)
JoinLines(ls) ==
  IF ls = <<>> THEN <<>>
  ELSE LET h == FormatLine(Head(ls))
           r == JoinLines(Tail(ls))
       IN IF h = <<>> THEN r
          ELSE IF r = <<>> THEN h ELSE h \o <<"\n">> \o r

HeadingTitle(type) ==
  CASE type = "INSIGHTS" -> "Key Research Insights"
    [] type = "ACHIEVEMENTS" -> "Notable Achievements"
    [] type = "RESEARCH_IDEAS" -> "Research Opportunities"

Heading(type) == <<"#", "#", " ", HeadingTitle(type)>>

validateAndFormatResponse(content, type) ==
  LET c0 == NormalizeNewlines(Trim(content))
      c1 == Trim(StripLines(c0, <<"#">>))
      c2 == Trim(StripLines(c1, <<"Introduction">>))
      c3 == Trim(StripLines(c2, <<"Summary">>))
      formatted == JoinLines(SplitLines(c3))
  IN Heading(type) \o <<"\n", "\n">> \o formatted

(***************************************************************************)
(* The remote assistant service, as far as the component sees it.          *)
(***************************************************************************)
\* runStatus.status values on which the polling loop goes on
Pending == {"queued", "in_progress"}

\* the run statuses the service can report
RunStatuses == Pending \cup {"completed", "failed", "expired"}

NoStatus == "none"

\* what a remote call can throw: an Error with a message, or another value
Thrown ==
  { [isError |-> TRUE, message |-> <<"Connection error.">>],
    [isError |-> FALSE, message |-> <<>>] }

\* err instanceof Error ? err.message : fallback
ErrorMessage(err, fallback) == IF err.isError THEN err.message ELSE fallback

\* a content item; value is the item's text.value, <<>> when it has none
TextItem(v) == [type |-> "text", value |-> v]

ImageItem == [type |-> "image_file", value |-> <<>>]

\* a message; hasContent is FALSE when its content is null or undefined
Message(role, hasContent, content) ==
  [role |-> role, hasContent |-> hasContent, content |-> content]

\* the message lists messages.list can return
MessageLists ==
  { <<>>,
    <<Message("user", TRUE, <<TextItem(<<"p">>)>>)>>,
    <<Message("assistant", FALSE, <<>>)>>,
    <<Message("assistant", TRUE, <<>>)>>,
    <<Message("assistant", TRUE, <<ImageItem>>)>>,
    <<Message("user", TRUE, <<TextItem(<<"p">>)>>),
      Message("assistant", TRUE, <<TextItem(<<"a">>)>>)>>,
    <<Message("assistant", TRUE, <<ImageItem, TextItem(<<"a">>)>>),
      Message("assistant", TRUE, <<TextItem(<<"b">>)>>)>> }

\* messages.data.find(msg => msg.role === "assistant"): 0 when there is none
FindAssistant(data) ==
  IF \E i \in 1..Len(data) : data[i].role = "assistant"
  THEN CHOOSE i \in 1..Len(data) :
         /\ data[i].role = "assistant"
         /\ \A j \in 1..(i - 1) : data[j].role # "assistant"
  ELSE 0

\* !assistantMessage?.content
LacksContent(data) ==
  LET i == FindAssistant(data) IN i = 0 \/ ~data[i].hasContent

\* item.type === 'text' ? item.text?.value || "" : ""
ItemText(item) ==
  IF item.type = "text" THEN item.value ELSE <<>>

\* .map(...).join("\n\n")
RECURSIVE JoinItems(_)
JoinItems(items) ==
  IF items = <<>> THEN <<>>
  ELSE IF Len(items) = 1 THEN ItemText(items[1])
       ELSE ItemText(items[1]) \o <<"\n", "\n">> \o JoinItems(Tail(items))

\* the raw text of the first assistant message
RawContent(data) == JoinItems(data[FindAssistant(data)].content)

\* data holds no text of the assistant
LacksText(data) ==
  \/ LacksContent(data)
  \/ \A n \in 1..Len(data[FindAssistant(data)].content) :
       ItemText(data[FindAssistant(data)].content[n]) = <<>>

(***************************************************************************)
(* State                                                                   *)
(***************************************************************************)
VARIABLES
  file,      \* useState file: the selected PDF, or NoFile
  results,   \* useState results: AssistantType -> AnalysisResult
  run,       \* per handleUpload invocation: where the invocation stands
  upFile,    \* per handleUpload invocation: the file it uploads
  job,       \* per invocation and kind: where processWithAssistant stands
  faults,    \* the number of failures of the remote service so far
  text,      \* validateAndFormatResponse on its own: the content it is given
  kind,      \* validateAndFormatResponse on its own: the type it is given
  returned, \* validateAndFormatResponse on its own: what it returned
  passes     \* validateAndFormatResponse on its own: the calls made so far

\* the state of the component and of its jobs
component == <<file, results, run, upFile, job, faults>>

\* the state of validateAndFormatResponse called on its own
formatting == <<text, kind, returned, passes>>

vars == <<file, results, run, upFile, job, faults, text, kind, returned, passes>>

NoJob == [pc |-> "none", runStatus |-> NoStatus]

\* the awaits of processWithAssistant
Awaiting == {"thread", "message", "run", "retrieve", "poll", "list"}

Init ==
  /\ file = NoFile
  /\ results = initialResults
  /\ run = [i \in Runs |-> "none"]
  /\ upFile = [i \in Runs |-> NoFile]
  /\ job = [i \in Runs |-> [t \in AssistantType |-> NoJob]]
  /\ faults = 0
  /\ text = <<>>
  /\ kind = "INSIGHTS"
  /\ returned = <<>>
  /\ passes = 0

(***************************************************************************)
(* The updates of results                                                  *)
(***************************************************************************)
\* mutant of SetLoading: the job does not announce itself
SetLoading_Skipped(prev, t) == prev

\* setResults(prev => ({...prev, [t]: {...prev[t], status: 'loading'}}))
SetLoading(prev, t) ==
  [prev EXCEPT ![t] = [@ EXCEPT !.status = "loading"]]

\* setResults(prev => ({...prev,
\*   [t]: {type: t, content: formattedContent, status: 'complete'}}))
SetComplete(prev, t, formattedContent) ==
  [prev EXCEPT ![t] = [type |-> t, content |-> formattedContent,
                       status |-> "complete", error |-> NoError]]

\* mutant of SetError: the catch of a job marks every kind
SetError_Everywhere(prev, t, message) ==
  [u \in AssistantType |->
     [prev[u] EXCEPT !.status = "error", !.error = message]]

\* setResults(prev => ({...prev,
\*   [t]: {...prev[t], status: 'error', error: message}}))
SetError(prev, t, message) ==
  [prev EXCEPT ![t] = [@ EXCEPT !.status = "error", !.error = message]]

\* mutant of SetAllError: the catch marks every kind as loading
SetAllError_Loading(prev, message) ==
  [t \in AssistantType |->
     [prev[t] EXCEPT !.status = "loading", !.error = message]]

\* mutant of SetAllError: the catch marks only INSIGHTS
SetAllError_OnlyInsights(prev, message) ==
  [prev EXCEPT !["INSIGHTS"] = [@ EXCEPT !.status = "error", !.error = message]]

\* the reduce of handleUpload's catch: every key gets status error
SetAllError(prev, message) ==
  [t \in AssistantType |->
     [prev[t] EXCEPT !.status = "error", !.error = message]]

\* mutant of RejectedResults: the message is shown on every card
RejectedResults_Everywhere ==
  [t \in AssistantType |->
     [initialResults[t] EXCEPT !.status = "error",
                               !.error = <<"Please upload a PDF file">>]]

\* the results handleFileChange sets for a file that is no PDF
RejectedResults ==
  [initialResults EXCEPT !["INSIGHTS"] =
     [@ EXCEPT !.status = "error", !.error = <<"Please upload a PDF file">>]]

\* a map that calls processWithAssistant for the first kind only
StartAll_OnlyFirst(prev, ts) == SetLoading(prev, "INSIGHTS")

\* the three synchronous calls of processWithAssistant made by the map of
\* handleUpload: each runs up to its first await
RECURSIVE StartAll(_, _)
StartAll(prev, ts) ==
  IF ts = {} THEN prev
  ELSE LET t == CHOOSE x \in ts : TRUE
       IN StartAll(SetLoading(prev, t), ts \ {t})

(***************************************************************************)
(* handleFileChange                                                        *)
(***************************************************************************)
\* the change event of the file input; f is e.target.files[0], NoFile when
\* the list is empty
HandleFileChange(f) ==
  /\ IF f = NoFile
     THEN UNCHANGED <<file, results>>
     ELSE IF f.type = PdfType
          THEN /\ file' = f
               /\ results' = initialResults
          ELSE /\ file' = NoFile
               /\ results' = RejectedResults
  /\ UNCHANGED <<run, upFile, job, faults>>
  /\ UNCHANGED formatting

(***************************************************************************)
(* handleUpload                                                            *)
(***************************************************************************)
\* the Analyze button is rendered and not disabled
AnalyzeEnabled ==
  /\ file # NoFile
  /\ \A t \in AssistantType : results[t].status # "loading"

\* the remote service answers; faulty tells whether the answer is a failure
Answer(faulty) ==
  /\ faulty => faults < MaxFaults
  /\ faults' = IF faulty THEN faults + 1 ELSE faults

\* the invocations other than i that have a job in flight
ActiveBut(i) ==
  {j \in Runs \ {i} : \E t \in AssistantType : job[j][t].pc \in Awaiting}

\* the click: handleUpload runs up to the await of files.create
HandleUpload(i) ==
  /\ AnalyzeEnabled
  /\ run[i] = "none"
  /\ \A j \in 1..(i - 1) : run[j] # "none"
  /\ run' = [run EXCEPT ![i] = "upload"]
  /\ upFile' = [upFile EXCEPT ![i] = file]
  /\ UNCHANGED <<file, results, job, faults>>
  /\ UNCHANGED formatting

\* files.create returns: the three jobs start, handleUpload awaits them
FilesCreateReturns(i) ==
  /\ run[i] = "upload"
  /\ Cardinality(ActiveBut(i)) < MaxActive
  /\ Answer(FALSE)
  /\ run' = [run EXCEPT ![i] = "jobs"]
  /\ results' = StartAll(results, AssistantType)
  /\ job' = [job EXCEPT ![i] =
               [t \in AssistantType |-> [pc |-> "thread", runStatus |-> NoStatus]]]
  /\ UNCHANGED <<file, upFile>>
  /\ UNCHANGED formatting

\* new OpenAI or files.create throws: the catch of handleUpload
FilesCreateThrows(i, err) ==
  /\ run[i] = "upload"
  /\ Answer(TRUE)
  /\ run' = [run EXCEPT ![i] = "failed"]
  /\ results' = SetAllError(results, ErrorMessage(err, <<"Upload failed">>))
  /\ UNCHANGED <<file, upFile, job>>
  /\ UNCHANGED formatting

\* Promise.race in the place of Promise.all
PromiseAllResolves_Race(i) ==
  /\ run[i] = "jobs"
  /\ \E t \in AssistantType : job[i][t].pc = "returned"
  /\ run' = [run EXCEPT ![i] = "done"]
  /\ UNCHANGED <<file, results, upFile, job, faults>>
  /\ UNCHANGED formatting

\* Promise.all resolves once the three jobs have returned
PromiseAllResolves(i) ==
  /\ run[i] = "jobs"
  /\ \A t \in AssistantType : job[i][t].pc = "returned"
  /\ run' = [run EXCEPT ![i] = "done"]
  /\ UNCHANGED <<file, results, upFile, job, faults>>
  /\ UNCHANGED formatting

(***************************************************************************)
(* processWithAssistant                                                    *)
(***************************************************************************)
\* the job goes on to the await pc, its local runStatus holding status
Goto(i, t, pc, status) ==
  job' = [job EXCEPT ![i][t] = [pc |-> pc, runStatus |-> status]]

\* the function returns: its promise resolves and its locals are gone
Return(i, t) == Goto(i, t, "returned", NoStatus)

\* the catch block
Catch(i, t, message) ==
  /\ results' = SetError(results, t, message)
  /\ Return(i, t)

ThreadsCreateReturns(i, t) ==
  /\ job[i][t].pc = "thread"
  /\ Goto(i, t, "message", NoStatus)
  /\ Answer(FALSE)
  /\ UNCHANGED <<file, results, run, upFile>>
  /\ UNCHANGED formatting

MessagesCreateReturns(i, t) ==
  /\ job[i][t].pc = "message"
  /\ Goto(i, t, "run", NoStatus)
  /\ Answer(FALSE)
  /\ UNCHANGED <<file, results, run, upFile>>
  /\ UNCHANGED formatting

RunsCreateReturns(i, t) ==
  /\ job[i][t].pc = "run"
  /\ Goto(i, t, "retrieve", NoStatus)
  /\ Answer(FALSE)
  /\ UNCHANGED <<file, results, run, upFile>>
  /\ UNCHANGED formatting

\* a job without the polling loop
RunsRetrieveReturns_NoLoop(i, t, s) ==
  /\ job[i][t].pc = "retrieve"
  /\ Answer(s = "failed")
  /\ Goto(i, t, "list", s)
  /\ UNCHANGED <<file, results, run, upFile>>
  /\ UNCHANGED formatting

\* the retrieve before the loop returns s
RunsRetrieveReturns(i, t, s) ==
  /\ job[i][t].pc = "retrieve"
  /\ Answer(s = "failed")
  /\ Goto(i, t, IF s \in Pending THEN "poll" ELSE "list", s)
  /\ UNCHANGED <<file, results, run, upFile>>
  /\ UNCHANGED formatting

\* the timer fires and the retrieve inside the loop returns s
PollRetrieveReturns(i, t, s) ==
  /\ job[i][t].pc = "poll"
  /\ Answer(s = "failed")
  /\ IF s = "failed"
     THEN Catch(i, t, <<"Analysis failed for ", t>>)
     ELSE /\ Goto(i, t, IF s \in Pending THEN "poll" ELSE "list", s)
          /\ UNCHANGED results
  /\ UNCHANGED <<file, run, upFile>>
  /\ UNCHANGED formatting

\* validateAndFormatResponse(rawContent, assistantType), tabulated for every
\* list that messages.list can return and every kind
FormattedContents ==
  { [data |-> data, type |-> t,
     content |-> IF LacksContent(data) THEN <<>>
                 ELSE validateAndFormatResponse(RawContent(data), t)] :
    data \in MessageLists, t \in AssistantType }

FormattedContent(data, t) ==
  (CHOOSE r \in FormattedContents : r.data = data /\ r.type = t).content

\* messages.list returns data
MessagesListReturns(i, t, data) ==
  /\ job[i][t].pc = "list"
  /\ Answer(LacksText(data))
  /\ IF LacksContent(data)
     THEN Catch(i, t, <<"No response received for ", t>>)
     ELSE /\ results' = SetComplete(results, t, FormattedContent(data, t))
          /\ Return(i, t)
  /\ UNCHANGED <<file, run, upFile>>
  /\ UNCHANGED formatting

\* the remote call the job awaits throws err
RemoteCallThrows(i, t, err) ==
  /\ job[i][t].pc \in Awaiting
  /\ Answer(TRUE)
  /\ Catch(i, t, ErrorMessage(err, <<"Analysis failed">>))
  /\ UNCHANGED <<file, run, upFile>>
  /\ UNCHANGED formatting

(***************************************************************************)
(* Specification                                                           *)
(***************************************************************************)
Next ==
  \/ \E f \in Files \cup {NoFile} : HandleFileChange(f)
  \/ \E i \in Runs : HandleUpload(i)
  \/ \E i \in Runs : FilesCreateReturns(i)
  \/ \E i \in Runs, err \in Thrown : FilesCreateThrows(i, err)
  \/ \E i \in Runs : PromiseAllResolves(i)
  \/ \E i \in Runs, t \in AssistantType : ThreadsCreateReturns(i, t)
  \/ \E i \in Runs, t \in AssistantType : MessagesCreateReturns(i, t)
  \/ \E i \in Runs, t \in AssistantType : RunsCreateReturns(i, t)
  \/ \E i \in Runs, t \in AssistantType, s \in RunStatuses :
       RunsRetrieveReturns(i, t, s)
  \/ \E i \in Runs, t \in AssistantType, s \in RunStatuses :
       PollRetrieveReturns(i, t, s)
  \/ \E i \in Runs, t \in AssistantType, data \in MessageLists :
       MessagesListReturns(i, t, data)
  \/ \E i \in Runs, t \in AssistantType, err \in Thrown :
       RemoteCallThrows(i, t, err)

Spec == Init /\ [][Next]_vars

\* the remote call that the job of kind t of invocation i awaits settles
RemoteCallSettles(i, t) ==
  \/ ThreadsCreateReturns(i, t)
  \/ MessagesCreateReturns(i, t)
  \/ RunsCreateReturns(i, t)
  \/ \E s \in RunStatuses : RunsRetrieveReturns(i, t, s)
  \/ \E s \in RunStatuses : PollRetrieveReturns(i, t, s)
  \/ \E data \in MessageLists : MessagesListReturns(i, t, data)
  \/ \E err \in Thrown : RemoteCallThrows(i, t, err)

\* files.create of invocation i settles
FilesCreateSettles(i) ==
  FilesCreateReturns(i) \/ \E err \in Thrown : FilesCreateThrows(i, err)

\* one invocation of handleUpload on its own, with the file selections that
\* can come in between
NextLive ==
  \/ \E f \in Files \cup {NoFile} : HandleFileChange(f)
  \/ HandleUpload(1)
  \/ FilesCreateReturns(1)
  \/ \E err \in Thrown : FilesCreateThrows(1, err)
  \/ PromiseAllResolves(1)
  \/ \E t \in AssistantType : ThreadsCreateReturns(1, t)
  \/ \E t \in AssistantType : MessagesCreateReturns(1, t)
  \/ \E t \in AssistantType : RunsCreateReturns(1, t)
  \/ \E t \in AssistantType, s \in RunStatuses : RunsRetrieveReturns(1, t, s)
  \/ \E t \in AssistantType, s \in RunStatuses : PollRetrieveReturns(1, t, s)
  \/ \E t \in AssistantType, data \in MessageLists :
       MessagesListReturns(1, t, data)
  \/ \E t \in AssistantType, err \in Thrown : RemoteCallThrows(1, t, err)

\* every remote call settles and every continuation of an await is run by the
\* event loop
Fairness ==
  /\ WF_vars(FilesCreateSettles(1))
  /\ WF_vars(PromiseAllResolves(1))
  /\ \A t \in AssistantType : WF_vars(RemoteCallSettles(1, t))

SpecLive == Init /\ [][NextLive]_vars /\ Fairness

(***************************************************************************)
(* validateAndFormatResponse called on its own, on every raw text          *)
(***************************************************************************)
\* the tokens of the raw texts
Alphabet ==
  {"a", " ", "\n", "\r", "#", "-", "1", ".", "Introduction", "Summary"}

\* the raw texts
Texts == UNION {[1..n -> Alphabet] : n \in 0..MaxLen}

InitFormat ==
  /\ file = NoFile
  /\ results = initialResults
  /\ run = [i \in Runs |-> "none"]
  /\ upFile = [i \in Runs |-> NoFile]
  /\ job = [i \in Runs |-> [t \in AssistantType |-> NoJob]]
  /\ faults = 0
  /\ text \in Texts
  /\ kind \in AssistantType
  /\ returned = <<>>
  /\ passes = 0

\* the call validateAndFormatResponse(text, kind); after the first call the
\* content given is the text returned by the call before
Format ==
  /\ passes < MaxPasses
  /\ text' = IF passes = 0 THEN text ELSE returned
  /\ returned' = validateAndFormatResponse(text', kind)
  /\ passes' = passes + 1
  /\ UNCHANGED <<kind, file, results, run, upFile, job, faults>>

SpecFormat == InitFormat /\ [][Format]_vars

(***************************************************************************)
(* Vocabulary of the properties                                            *)
(***************************************************************************)
Status(t) == results[t].status

\* this step is the start of the three jobs of an invocation
JobsStart == \E i \in Runs : run[i] = "upload" /\ run'[i] = "jobs"

\* this step is the catch of handleUpload
UploadFails == \E i \in Runs : run[i] = "upload" /\ run'[i] = "failed"

\* this step is a step of the job of kind t of invocation i, after its start
JobStep(i, t) == job[i][t].pc \in Awaiting /\ job'[i][t] # job[i][t]

\* this step is the return of the job of kind t of invocation i
JobReturns(i, t) == job[i][t].pc \in Awaiting /\ job'[i][t].pc = "returned"

\* this step is handleFileChange rejecting a file that is no PDF
Rejects == \E f \in Files : f.type # PdfType /\ HandleFileChange(f)

(***************************************************************************)
(* C1                                                                      *)
(***************************************************************************)
\* C1 as stated: no kind's status changes from idle directly to complete or
\* to error; every change out of idle goes to loading.
C1_IdleOnlyToLoading ==
  [][\A t \in AssistantType :
       Status(t) = "idle" => Status(t)' \in {"idle", "loading"}]_vars

\* C1 amended: the first update of every job sets its kind to loading (the
\* start of the jobs sets all three), and a kind's status changes from idle
\* directly to error or complete only by handleFileChange rejecting a file
\* that is no PDF (INSIGHTS to error), by the catch of handleUpload when the
\* upload fails (to error), or by the return of a job that had set loading
\* before handleFileChange reset the results.
C1_IdleLeavesByLoadingOrNamedSteps ==
  [][/\ JobsStart => \A t \in AssistantType : Status(t)' = "loading"
     /\ \A t \in AssistantType :
          (Status(t) = "idle" /\ Status(t)' \notin {"idle", "loading"}) =>
             \/ Rejects /\ t = "INSIGHTS" /\ Status(t)' = "error"
             \/ UploadFails /\ Status(t)' = "error"
             \/ \E i \in Runs : JobReturns(i, t)]_vars

\* the rejection of a file that is no PDF has taken INSIGHTS from idle to
\* error before any Analyze
C1_Witness ==
  /\ results = RejectedResults
  /\ \A i \in Runs : run[i] = "none"

(***************************************************************************)
(* C2                                                                      *)
(***************************************************************************)
\* C2 as stated: a kind whose status is complete does not become loading.
C2_CompleteNeverLoading ==
  [][\A t \in AssistantType :
       Status(t) = "complete" => Status(t)' # "loading"]_vars

\* C2 amended: a kind's status changes from complete to loading only when
\* a handleUpload invocation starts its jobs (Analyze was invoked again and
\* its upload returned); no step of a running job, no file selection and no
\* failed upload makes that change.
C2_CompleteToLoadingOnlyByJobsStart ==
  [][\A t \in AssistantType :
       (Status(t) = "complete" /\ Status(t)' = "loading") => JobsStart]_vars

\* a second Analyze has set a completed kind to loading again: the kind is
\* loading and still holds the content of the first run
C2_Witness ==
  \E t \in AssistantType :
    /\ Status(t) = "loading"
    /\ results[t].content # <<>>
    /\ run[1] = "done"

(***************************************************************************)
(* C3                                                                      *)
(***************************************************************************)
\* C3: for every kind, content is non-empty if and only if status is
\* complete.
C3_ContentIffComplete ==
  \A t \in AssistantType :
    (results[t].content # <<>>) <=> (Status(t) = "complete")

(***************************************************************************)
(* C4                                                                      *)
(***************************************************************************)
\* C4: for every kind, the error field is set if and only if status is
\* error.
C4_ErrorIffStatusError ==
  \A t \in AssistantType :
    (results[t].error # NoError) <=> (Status(t) = "error")

(***************************************************************************)
(* C5                                                                      *)
(***************************************************************************)
\* C5: every update made by the job of kind t leaves the results of the
\* other two kinds unchanged: a step of a running job changes no other
\* kind's result, and the start of the jobs changes, of each kind's result,
\* the status only.
C5_JobWritesOwnKeyOnly ==
  [][/\ \A i \in Runs, t \in AssistantType :
          JobStep(i, t) =>
            \A u \in AssistantType \ {t} : results'[u] = results[u]
     /\ JobsStart =>
          \A u \in AssistantType :
            results'[u] = [results[u] EXCEPT !.status = "loading"]]_vars

\* in one invocation the job of one kind has failed and the job of another
\* kind has completed, while the third is still running
C5_Witness ==
  \E t, u, v \in AssistantType :
    /\ Status(t) = "error" /\ job[1][t].pc = "returned"
    /\ Status(u) = "complete" /\ job[1][u].pc = "returned"
    /\ Status(v) = "loading" /\ job[1][v].pc \in Awaiting
    /\ run[2] = "none"

(***************************************************************************)
(* C6                                                                      *)
(***************************************************************************)
\* the messages the catch of handleUpload can report
UploadMessages ==
  {err.message : err \in {e \in Thrown : e.isError}} \cup {<<"Upload failed">>}

\* C6: when the upload of an invocation fails, that step leaves all three
\* kinds with status error and one and the same message (the message of the
\* failure, or 'Upload failed') and no kind loading; the invocation starts
\* no job, then or later, and its click changes no result.
C6_UploadFailureMarksAll ==
  [][\A i \in Runs :
       /\ (run[i] = "upload" /\ run'[i] = "failed") =>
            /\ \E m \in UploadMessages :
                 \A t \in AssistantType :
                   Status(t)' = "error" /\ results'[t].error = m
            /\ job' = job
       /\ (run[i] = "none" /\ run'[i] = "upload") => results' = results
       /\ run[i] = "failed" =>
            /\ run'[i] = "failed"
            /\ \A t \in AssistantType : job'[i][t] = NoJob]_vars

\* the upload of the first invocation has failed: all three kinds are in
\* error with the same message and no job of it exists
C6_Witness ==
  /\ run[1] = "failed"
  /\ \A t \in AssistantType :
       /\ Status(t) = "error"
       /\ results[t].error = results["INSIGHTS"].error
       /\ job[1][t] = NoJob

(***************************************************************************)
(* C7                                                                      *)
(***************************************************************************)
\* C7: a job that has observed the run status failed, on the first
\* retrieval or on a later one, ends with status error for its kind and
\* never sets its kind to complete.
C7_FailedRunEndsInError ==
  [][\A i \in Runs, t \in AssistantType :
       \/ job[i][t].runStatus = "failed" /\ JobReturns(i, t)
       \/ PollRetrieveReturns(i, t, "failed")
       => Status(t)' = "error"]_vars

(***************************************************************************)
(* C8                                                                      *)
(***************************************************************************)
\* C8: when the listed messages hold no message of the assistant, or the
\* first one holds no text item, the job ends with status error and not
\* with status complete.
C8_NoTextEndsInError ==
  [][\A i \in Runs, t \in AssistantType, data \in MessageLists :
       (MessagesListReturns(i, t, data) /\ LacksText(data)) =>
          Status(t)' = "error"]_vars

(***************************************************************************)
(* C9                                                                      *)
(***************************************************************************)
\* C9: a kind whose status is error becomes loading or complete only by a
\* handleUpload invocation starting its jobs; the return of a job that was
\* already running does not change it.
C9_ErrorLeftOnlyByAnalyze ==
  [][\A t \in AssistantType :
       (Status(t) = "error" /\ Status(t)' \in {"loading", "complete"}) =>
          JobsStart]_vars

(***************************************************************************)
(* C10                                                                     *)
(***************************************************************************)
\* C10: selecting a file whose declared type is not application/pdf, from
\* any state, unsets the file (so that Analyze is not available), sets
\* INSIGHTS to error with 'Please upload a PDF file' and leaves the two
\* other kinds idle with empty content; the held file is always absent or
\* a PDF.
C10_NonPdfIsRejected ==
  [][/\ Rejects =>
          /\ file' = NoFile
          /\ ~AnalyzeEnabled'
          /\ Status("INSIGHTS")' = "error"
          /\ results'["INSIGHTS"].error = <<"Please upload a PDF file">>
          /\ \A t \in AssistantType \ {"INSIGHTS"} :
               Status(t)' = "idle" /\ results'[t].content = <<>>
     /\ file' = NoFile \/ file'.type = "application/pdf"]_vars

\* a file that is no PDF was selected while the jobs of an invocation were
\* running on results that a first invocation had completed
C10_Witness ==
  /\ file = NoFile
  /\ results = RejectedResults
  /\ run[1] = "done"
  /\ run[2] = "jobs"


(***************************************************************************)
(* Vocabulary of the properties of the formatter                           *)
(***************************************************************************)
\* the text returned, past the heading and the two line feeds
Body == SubSeq(returned, 7, Len(returned))

\* the lines of the body (none if the body is empty)
BodyLines == IF Body = <<>> THEN <<>> ELSE SplitLines(Body)

Preambles == {"#", "Introduction", "Summary"}

\* digits and a dot, or a bullet character, stand first in the line
StartsWithMarker(l) ==
  /\ l # <<>>
  /\ \/ l[1] \in {"-", "*", "bullet"}
     \/ \E e \in 2..Len(l) :
          l[e] = "." /\ \A d \in 1..(e - 1) : l[d] \in Digits

\* C11: for every raw text and every kind, the text returned has the
\* heading of the kind as its first line, a blank second line, and no '#'
\* at the start of any later line.
C11_HeadingThenBlankThenNoHeading ==
  passes >= 1 =>
    LET ls == SplitLines(returned)
        title == CASE kind = "INSIGHTS" -> "Key Research Insights"
                   [] kind = "ACHIEVEMENTS" -> "Notable Achievements"
                   [] kind = "RESEARCH_IDEAS" -> "Research Opportunities"
    IN /\ Len(ls) >= 3
       /\ ls[1] = <<"#", "#", " ", title>>
       /\ ls[2] = <<>>
       /\ \A n \in 3..Len(ls) : ls[n] = <<>> \/ ls[n][1] # "#"
       /\ \A i \in 2..Len(returned) :
            returned[i] = "#" => returned[i - 1] \notin {"\n", "\r"}

\* a raw text with a '#' that is not at the start of a line, which the body
\* keeps, and a second line
C11_Witness ==
  /\ passes = 1
  /\ \E i \in 1..Len(Body) : Body[i] = "#"
  /\ Len(BodyLines) >= 2

\* C12: formatting the text returned, with the same kind, returns the same
\* text: format(format(t, k), k) = format(t, k).
C12_FormatIsIdempotent == passes >= 2 => returned = text

\* a second call on a text of two body lines, one with a marker of its own
\* and one that the first call gave its marker
C12_Witness ==
  /\ passes = 2
  /\ Len(BodyLines) = 2
  /\ BodyLines[1] = <<"-", " ", "a">>
  /\ BodyLines[2] = <<"1", ".">>


\* the lines of the raw text that are not blank
InputLines == SelectSeq(SplitLines(text), LAMBDA l : Trim(l) # <<>>)

\* the line, once trimmed, holds a carriage return
HoldsCarriageReturn(l) == \E i \in 1..Len(Trim(l)) : Trim(l)[i] = "\r"

C14_OnlyPreambleAndBlankLinesRemoved ==
  passes = 1 =>
    LET kept == SelectSeq(SplitLines(text),
                  LAMBDA l : Trim(l) # <<>> /\ l[1] \notin Preambles)
    IN /\ Len(BodyLines) = Len(kept)
       /\ \A n \in 1..Len(kept) : BodyLines[n] = FormatLine(kept[n])


\* C15 as stated: the status of the kind of a job is loading for as long as
\* the job polls, and once the job has settled the status is complete or
\* error for the rest of the invocation.
C15_LoadingWhilePollingThenSettled ==
  \A i \in Runs, t \in AssistantType :
    /\ job[i][t].pc = "poll" => Status(t) = "loading"
    /\ (run[i] = "jobs" /\ job[i][t].pc = "returned") =>
         Status(t) \in {"complete", "error"}

\* C15, amended: a retrieve that returns queued or in_progress leaves the
\* job polling and the results as they are, however often it happens; under
\* fair scheduling a job whose retrieve returned another status returns; at
\* its return the status of its kind is complete or error, and the job takes
\* no step after it; handleUpload finishes only when the three jobs have
\* returned.  (Between the steps of the job handleFileChange can reset the
\* status of its kind.)
C15_PollsThenSettlesOnce ==
  /\ [][\A i \in Runs, t \in AssistantType :
         /\ \A s \in Pending :
              (RunsRetrieveReturns(i, t, s) \/ PollRetrieveReturns(i, t, s)) =>
                (job'[i][t].pc = "poll" /\ results' = results)
         /\ JobReturns(i, t) => Status(t)' \in {"complete", "error"}
         /\ job[i][t].pc = "returned" => job'[i][t] = job[i][t]
         /\ (run[i] = "jobs" /\ run'[i] = "done") =>
              \A u \in AssistantType : job[i][u].pc = "returned"]_vars
  /\ \A i \in Runs, t \in AssistantType :
       (job[i][t].pc = "list") ~> (job[i][t].pc = "returned")

\* one job has polled and has completed, another one still polls
C15_Witness ==
  \E t, u \in AssistantType :
    /\ run[1] = "jobs"
    /\ job[1][t].pc = "returned" /\ Status(t) = "complete"
    /\ job[1][u].pc = "poll" /\ job[1][u].runStatus = "in_progress"

\* C16: when files.create has returned, the three kinds are loading and the
\* three jobs await their thread before any remote call of a job returns; a
\* step of a job leaves the other jobs where they are, and a job that awaits
\* a remote call can take its next step wherever the other jobs stand, so
\* the jobs settle in any order.
C16_JobsStartTogetherAndRunApart ==
  /\ [][\A i \in Runs :
         /\ (run[i] = "upload" /\ run'[i] = "jobs") =>
              \A t \in AssistantType :
                /\ Status(t)' = "loading"
                /\ job[i][t].pc = "none"
                /\ job'[i][t].pc = "thread"
         /\ \A t \in AssistantType :
              JobStep(i, t) =>
                \A u \in AssistantType \ {t} : job'[i][u] = job[i][u]]_vars
  /\ [](\A i \in Runs, t \in AssistantType :
          job[i][t].pc \in Awaiting => ENABLED RemoteCallSettles(i, t))

\* the job started last has completed while the two started before it
\* still await their thread
C16_Witness ==
  \E i \in Runs :
    /\ run[i] = "jobs"
    /\ job[i]["RESEARCH_IDEAS"].pc = "returned"
    /\ Status("RESEARCH_IDEAS") = "complete"
    /\ job[i]["INSIGHTS"].pc = "thread"
    /\ job[i]["ACHIEVEMENTS"].pc = "thread"

\* the awaits that can follow the await pc when the awaited call returns
FollowingAwaits(pc) ==
  CASE pc = "thread" -> {"message"}
    [] pc = "message" -> {"run"}
    [] pc = "run" -> {"retrieve"}
    [] pc = "retrieve" -> {"poll", "list"}
    [] pc = "poll" -> {"poll", "list"}
    [] pc = "list" -> {}

\* C17: a job sets loading, then awaits in this order the creation of the
\* thread, of the message and of the run, the retrieves of the run status,
\* and the list of the messages, and sets complete last; it lists the
\* messages only with a retrieved status that is neither queued nor
\* in_progress, and sets complete only when the list has returned.
C17_StepsInOrder ==
  [][\A i \in Runs, t \in AssistantType :
       job'[i][t] # job[i][t] =>
         /\ job[i][t].pc = "none" =>
              job'[i][t].pc = "thread" /\ Status(t)' = "loading"
         /\ job[i][t].pc \in Awaiting =>
              \/ /\ job'[i][t].pc \in FollowingAwaits(job[i][t].pc)
                 /\ results' = results
              \/ /\ job'[i][t].pc = "returned"
                 /\ Status(t)' \in {"complete", "error"}
         /\ job[i][t].pc # "returned"
         /\ job'[i][t].pc = "list" =>
              job'[i][t].runStatus \in RunStatuses \ {"queued", "in_progress"}
         /\ (job'[i][t].pc = "returned" /\ Status(t)' = "complete") =>
              job[i][t].pc = "list"]_vars

\* a job has set complete after its list returned, another one of the same
\* invocation still polls and the third is about to list its messages
C17_Witness ==
  \E i \in Runs :
    /\ job[i]["INSIGHTS"].pc = "returned"
    /\ Status("INSIGHTS") = "complete"
    /\ job[i]["ACHIEVEMENTS"].pc = "poll"
    /\ job[i]["RESEARCH_IDEAS"].pc = "list"
    /\ job[i]["RESEARCH_IDEAS"].runStatus = "completed"

\* the invocation i of handleUpload uploads or has a job that has not settled
InProgress(i) ==
  run[i] = "upload" \/ \E t \in AssistantType : job[i][t].pc \in Awaiting

\* C18 as stated: at most one invocation of handleUpload is in progress, the
\* Analyze control is disabled while one is, and at most one job of each
\* kind is in flight.
C18_OnePipelineAtATime ==
  /\ Cardinality({i \in Runs : InProgress(i)}) <= 1
  /\ (\E i \in Runs : InProgress(i)) => ~AnalyzeEnabled
  /\ \A t \in AssistantType :
       Cardinality({i \in Runs : job[i][t].pc \in Awaiting}) <= 1

\* C19 as stated: a job sets complete only when the file it was started for
\* is the selected file and the results were not reset since it set loading,
\* so that a complete kind holds the analysis of the selected file.
C19_CompleteIsOfSelectedFile ==
  [][\A i \in Runs, t \in AssistantType :
       (JobReturns(i, t) /\ Status(t)' = "complete") =>
         (upFile[i] = file /\ Status(t) = "loading")]_vars
====
